---- MODULE Spec2Model ----
(***************************************************************************)
(* Model of the personal-finance-tracker backend (src/app.py): the three   *)
(* HTTP endpoints create_link_token, set_access_token, sync_transactions,  *)
(* the SQLite tables they read and write, and the keyword categorizer.     *)
(* Text that the categorizer inspects is a sequence of one-character       *)
(* strings, so that lowercasing and substring search are computed.         *)
(***************************************************************************)
EXTENDS Integers, Sequences, FiniteSets, TLC

(* ------------------------------ bounds --------------------------------- *)

\* Most fragments concatenated into one description (specification SpecCat).
MaxFrags == 2
\* Most committed rows of the transactions table.
MaxRows == 2
\* Most 'added' transactions in one remote delta.
MaxDelta == 2

(* --------------------------- text helpers ------------------------------ *)

UpperChars ==
    <<"A","B","C","D","E","F","G","H","I","J","K","L","M",
      "N","O","P","Q","R","S","T","U","V","W","X","Y","Z">>

LowerChars ==
    <<"a","b","c","d","e","f","g","h","i","j","k","l","m",
      "n","o","p","q","r","s","t","u","v","w","x","y","z">>

\* One character of str.lower(): an upper-case letter maps to its lower-case
\* letter, every other character to itself.
LowerOfUpper ==
    [ c \in { UpperChars[i] : i \in 1..Len(UpperChars) } |->
        LowerChars[CHOOSE i \in 1..Len(UpperChars) : UpperChars[i] = c] ]

LowerChar(c) == IF c \in DOMAIN LowerOfUpper THEN LowerOfUpper[c] ELSE c

\* description.lower()
Lower(s) == [i \in 1..Len(s) |-> LowerChar(s[i])]

\* Python's `keyword in text` on strings: keyword occurs as a contiguous run.
IsSubstring(keyword, text) ==
    \E i \in 0..(Len(text) - Len(keyword)) :
        \A j \in 1..Len(keyword) : text[i + j] = keyword[j]

(* ----------------------------- categorizer ----------------------------- *)

\* KEYWORD_MAP with Transport declared before Food (a reordering slip).
KEYWORD_MAP_reordered ==
 <<
    [category |-> "Transport", keywords |-> <<
        <<"u","b","e","r">>,
        <<"l","y","f","t">>,
        <<"g","a","s">>,
        <<"m","e","t","r","o">> >>],
    [category |-> "Food", keywords |-> <<
        <<"r","e","s","t","a","u","r","a","n","t">>,
        <<"c","a","f","e">>,
        <<"g","r","o","c","e","r","i","e","s">>,
        <<"s","t","a","r","b","u","c","k","s">>,
        <<"m","c","d","o","n","a","l","d","s">> >>],
    [category |-> "Shopping", keywords |-> <<
        <<"a","m","a","z","o","n">>,
        <<"t","a","r","g","e","t">>,
        <<"w","a","l","m","a","r","t">>,
        <<"s","t","o","r","e">> >>],
    [category |-> "Utilities", keywords |-> <<
        <<"e","l","e","c","t","r","i","c">>,
        <<"c","o","m","c","a","s","t">>,
        <<"v","e","r","i","z","o","n">>,
        <<"w","a","t","e","r">> >>],
    [category |-> "Entertainment", keywords |-> <<
        <<"m","o","v","i","e","s">>,
        <<"c","o","n","c","e","r","t">>,
        <<"n","e","t","f","l","i","x">>,
        <<"s","p","o","t","i","f","y">> >>],
    [category |-> "Housing", keywords |-> <<
        <<"r","e","n","t">>,
        <<"m","o","r","t","g","a","g","e">> >>]
 >>

\* The dict literal KEYWORD_MAP; a Python dict iterates in insertion order,
\* so it is a sequence of (category, keywords) items.
KEYWORD_MAP ==
 <<
    [category |-> "Food", keywords |-> <<
        <<"r","e","s","t","a","u","r","a","n","t">>,
        <<"c","a","f","e">>,
        <<"g","r","o","c","e","r","i","e","s">>,
        <<"s","t","a","r","b","u","c","k","s">>,
        <<"m","c","d","o","n","a","l","d","s">> >>],
    [category |-> "Transport", keywords |-> <<
        <<"u","b","e","r">>,
        <<"l","y","f","t">>,
        <<"g","a","s">>,
        <<"m","e","t","r","o">> >>],
    [category |-> "Shopping", keywords |-> <<
        <<"a","m","a","z","o","n">>,
        <<"t","a","r","g","e","t">>,
        <<"w","a","l","m","a","r","t">>,
        <<"s","t","o","r","e">> >>],
    [category |-> "Utilities", keywords |-> <<
        <<"e","l","e","c","t","r","i","c">>,
        <<"c","o","m","c","a","s","t">>,
        <<"v","e","r","i","z","o","n">>,
        <<"w","a","t","e","r">> >>],
    [category |-> "Entertainment", keywords |-> <<
        <<"m","o","v","i","e","s">>,
        <<"c","o","n","c","e","r","t">>,
        <<"n","e","t","f","l","i","x">>,
        <<"s","p","o","t","i","f","y">> >>],
    [category |-> "Housing", keywords |-> <<
        <<"r","e","n","t">>,
        <<"m","o","r","t","g","a","g","e">> >>]
 >>

\* any(keyword in description.lower() for keyword in keywords)
AnyKeyword(keywords, description) ==
    LET text == Lower(description)
    IN  \E k \in 1..Len(keywords) : IsSubstring(keywords[k], text)

\* The for loop over KEYWORD_MAP.items() from item i on: the first item with
\* a matching keyword returns its category; falling off the end returns
\* 'Uncategorized'.
RECURSIVE CategorizeFrom(_, _)
CategorizeFrom(description, i) ==
    IF i > Len(KEYWORD_MAP)
    THEN "Uncategorized"
    ELSE IF AnyKeyword(KEYWORD_MAP[i].keywords, description)
         THEN KEYWORD_MAP[i].category
         ELSE CategorizeFrom(description, i + 1)

categorize_transaction(description) == CategorizeFrom(description, 1)

(* --------------------------- categorizer inputs ------------------------ *)

\* Pieces from which descriptions are assembled: keywords in mixed case,
\* halves of keywords that only match once joined ("Ve"+"gas", "ca"+"fe"),
\* and text with no keyword.
Fragments ==
    { <<"S","t","a","r","b","u","c","k","s">>,
      <<"U","B","E","R">>,
      <<"A","m","a","z","o","n">>,
      <<"C","o","m","c","a","s","t">>,
      <<"N","E","T","F","L","I","X">>,
      <<"R","e","n","t">>,
      <<"V","e">>,
      <<"g","a","s">>,
      <<" ">>,
      <<"c","a">>,
      <<"f","e">> }


(* ------------------------------ data sets ------------------------------ *)

\* Python None: the value of data.get(field) when the JSON field is absent.
None == "None"

\* request.get_json() yields no dict (no JSON body): data.get raises.
NoBody == [no_body |-> TRUE]

Users == {"user-1", "user-2"}

\* Values a request may carry in user_id / public_token.
UserIdValues == Users \cup {None, ""}

PublicTokenValues == {"public-sandbox-1", None, ""}

\* Python truthiness of a request field: None and '' are falsy.
Falsy(v) == v = None \/ v = ""

\* The validation with `and` in place of `or`.
MissingField_both(data) == Falsy(data.public_token) /\ Falsy(data.user_id)

\* if not public_token or not user_id
MissingField(data) == Falsy(data.public_token) \/ Falsy(data.user_id)

\* What item_public_token_exchange may return.
ExchangeResponses ==
    { [access_token |-> "access-1", item_id |-> "item-1"],
      [access_token |-> "access-2", item_id |-> "item-2"] }

\* Transactions the remote API may report.
RemoteTxns ==
    { [name |-> <<"S","t","a","r","b","u","c","k","s"," ","C","o","f","f","e","e">>,
       amount |-> 450, date |-> "2024-01-01"],
      [name |-> <<"A","C","H"," ","T","r","a","n","s","f","e","r">>,
       amount |-> 20000, date |-> "2024-01-03"] }

SeqsUpTo(S, n) == UNION { [1..k -> S] : k \in 0..n }

\* The 'modified' and 'removed' parts of a transactions_sync response.
OtherDeltaParts ==
    { [modified |-> <<>>, removed |-> <<>>],
      [modified |-> << [name |-> <<"U","B","E","R"," ","T","R","I","P">>,
                        amount |-> 1299, date |-> "2024-01-02"] >>,
       removed |-> << [transaction_id |-> "txn-1"] >>] }

\* What transactions_sync may return.
SyncResponses ==
    { [added |-> a, modified |-> o.modified, removed |-> o.removed] :
        a \in SeqsUpTo(RemoteTxns, MaxDelta), o \in OtherDeltaParts }

NoResponse == [absent |-> TRUE]

\* Contents the categories table may have been seeded with: the six named
\* categories plus the sentinel, or a table that lacks the Food row.
CategoryTables ==
    { { [id |-> 1, name |-> "Food"], [id |-> 2, name |-> "Transport"],
        [id |-> 3, name |-> "Shopping"], [id |-> 4, name |-> "Utilities"],
        [id |-> 5, name |-> "Entertainment"], [id |-> 6, name |-> "Housing"],
        [id |-> 7, name |-> "Uncategorized"] },
      { [id |-> 2, name |-> "Transport"], [id |-> 3, name |-> "Shopping"],
        [id |-> 7, name |-> "Uncategorized"] } }

(* -------------------------------- state -------------------------------- *)

VARIABLES
    plaid_items,    \* table plaid_items: set of rows (user_id, access_token, item_id)
    transactions,   \* table transactions, committed rows in rowid order
    categories,     \* table categories: set of rows (id, name)
    request,        \* the most recent request: endpoint and JSON body
    response,       \* what that request returned: HTTP status and payload
    remote,         \* the remote API method that request called, whether it
                    \* answered, and the answer a request that succeeded was built on
    conn,           \* the SQLite connection that request obtained, as it returned
    description,    \* input of the categorizer (SpecCat)
    fragments,      \* number of fragments the description was built from (SpecCat)
    category        \* categorize_transaction(description) (SpecCat)

vars == <<plaid_items, transactions, categories, request, response, remote,
          conn, description, fragments, category>>

dbVars == <<plaid_items, transactions, categories>>
catVars == <<description, fragments, category>>

(* ----------------------------- persistence ----------------------------- *)

\* The uniqueness key of plaid_items on which INSERT OR REPLACE conflicts.
PlaidItemsKey(row) == row.user_id

\* A replace that drops every other row of the table.
InsertOrReplace_truncates(table, row) == {row}

\* Plain INSERT: the new row is added next to any row of the same user.
InsertOrReplace_insert_only(table, row) == table \cup {row}

\* INSERT OR REPLACE INTO plaid_items: rows that conflict on the key are
\* deleted, then the new row is inserted.
InsertOrReplace(table, row) ==
    { r \in table : PlaidItemsKey(r) # PlaidItemsKey(row) } \cup {row}

\* A lookup without the WHERE clause.
SelectItem_any_user(table, user_id) == table

\* SELECT access_token FROM plaid_items WHERE user_id = ? ; fetchone()
\* (the set of matching rows; empty means fetchone() returned None).
SelectItem(table, user_id) == { r \in table : r.user_id = user_id }

\* {row['name']: row['id'] for row in SELECT id, name FROM categories}
CategoryMap(table) ==
    [ n \in { r.name : r \in table } |->
        (CHOOSE r \in table : r.name = n).id ]

\* category_map.get(category_name) with no default: None is stored as NULL.
ResolveCategory_no_default(category_map, category_name) ==
    IF category_name \in DOMAIN category_map
    THEN category_map[category_name]
    ELSE 0

\* category_map.get(category_name, category_map['Uncategorized'])
ResolveCategory(category_map, category_name) ==
    IF category_name \in DOMAIN category_map
    THEN category_map[category_name]
    ELSE category_map["Uncategorized"]

\* The row with every transaction filed under the name's own text, bypassing
\* the categorizer (always the fallback id).
TransactionRow_uncategorized(user_id, t, category_map) ==
    [ user_id |-> user_id, transaction_date |-> t.date, description |-> t.name,
      amount |-> t.amount, category_id |-> category_map["Uncategorized"] ]

\* The tuple bound to the INSERT INTO transactions statement for one t.
TransactionRow(user_id, t, category_map) ==
    [ user_id |-> user_id, transaction_date |-> t.date, description |-> t.name,
      amount |-> t.amount,
      category_id |-> ResolveCategory(category_map, categorize_transaction(t.name)) ]

\* An insert that skips a row already present (a uniqueness constraint).
InsertTransaction_unique(view, row) ==
    IF \E i \in 1..Len(view) : view[i] = row THEN view ELSE Append(view, row)

\* INSERT INTO transactions: a new row is appended with the next rowid.
\* `view` is the table as the inserting connection sees it.
InsertTransaction(view, row) == Append(view, row)

\* The for loop of sync_transactions over `ts`: each iteration inserts one
\* row and increments new_transaction_count.
RECURSIVE InsertLoop(_, _, _, _, _)
InsertLoop(view, count, ts, user_id, category_map) ==
    IF ts = <<>>
    THEN [view |-> view, count |-> count]
    ELSE InsertLoop(InsertTransaction(view, TransactionRow(user_id, Head(ts), category_map)),
                    count + 1, Tail(ts), user_id, category_map)

\* An except block that commits what the connection had written so far.
OnError_commits(committed, view) == view

\* The except block: the handler returns without conn.commit(), so the
\* statements its connection issued never reach the committed table.
OnError(committed, view) == committed

(* --------------------------- connection fates -------------------------- *)

Unopened == [status |-> "unopened", pending |-> 0]

\* conn.commit(); conn.close()
Closed == [status |-> "closed", pending |-> 0]

\* A handler that returns without conn.close(): the connection object is
\* unreachable; the runtime either finalizes it as the frame is dropped
\* (reference counting) or leaves it open holding its uncommitted writes.
Unclosed(pending) ==
    { [status |-> "open", pending |-> pending],
      [status |-> "finalized", pending |-> 0] }

NoCall == [api |-> "none", answered |-> FALSE, result |-> NoResponse]

ErrorResponse(status) == [status |-> status, kind |-> "error"]

(* --------------------------- create_link_token ------------------------- *)

\* link_token_create answers: the payload is returned verbatim, status 200.
LinkTokenCreated ==
    /\ request' = [op |-> "create_link_token", data |-> NoBody]
    /\ remote' = [api |-> "link_token_create", answered |-> TRUE,
                  result |-> [link_token |-> "link-sandbox-1"]]
    /\ response' = [status |-> 200, kind |-> "payload",
                    link_token |-> "link-sandbox-1"]
    /\ conn' = Unopened
    /\ UNCHANGED <<dbVars, catVars>>

\* link_token_create raises: caught, status 500.
LinkTokenFails ==
    /\ request' = [op |-> "create_link_token", data |-> NoBody]
    /\ remote' = [api |-> "link_token_create", answered |-> FALSE, result |-> NoResponse]
    /\ response' = ErrorResponse(500)
    /\ conn' = Unopened
    /\ UNCHANGED <<dbVars, catVars>>

create_link_token == LinkTokenCreated \/ LinkTokenFails

(* --------------------------- set_access_token -------------------------- *)

SetBodies ==
    {NoBody} \cup [public_token : PublicTokenValues, user_id : UserIdValues]

\* data is not a dict: data.get raises before anything else happens.
SetNoBody ==
    /\ request' = [op |-> "set_access_token", data |-> NoBody]
    /\ remote' = NoCall
    /\ response' = ErrorResponse(500)
    /\ conn' = Unopened
    /\ UNCHANGED <<dbVars, catVars>>

\* `if not public_token or not user_id`: 400 before any remote call.
SetMissingField(data) ==
    /\ data # NoBody
    /\ MissingField(data)
    /\ request' = [op |-> "set_access_token", data |-> data]
    /\ remote' = NoCall
    /\ response' = ErrorResponse(400)
    /\ conn' = Unopened
    /\ UNCHANGED <<dbVars, catVars>>

\* item_public_token_exchange raises: no connection was opened yet.
SetExchangeFails(data) ==
    /\ data # NoBody
    /\ ~ MissingField(data)
    /\ request' = [op |-> "set_access_token", data |-> data]
    /\ remote' = [api |-> "item_public_token_exchange", answered |-> FALSE,
                  result |-> NoResponse]
    /\ response' = ErrorResponse(500)
    /\ conn' = Unopened
    /\ UNCHANGED <<dbVars, catVars>>

\* The exchange answers, then execute (issued = 0) or commit (issued = 1)
\* raises: the except block returns 500, conn.close() is never reached.
SetPersistFails(data, exchange_response, issued) ==
    /\ data # NoBody
    /\ ~ MissingField(data)
    /\ request' = [op |-> "set_access_token", data |-> data]
    /\ remote' = [api |-> "item_public_token_exchange", answered |-> TRUE,
                  result |-> NoResponse]
    /\ response' = ErrorResponse(500)
    /\ conn' \in Unclosed(issued)
    /\ plaid_items' =
         OnError(plaid_items,
                 IF issued = 0 THEN plaid_items
                 ELSE InsertOrReplace(plaid_items,
                        [user_id |-> data.user_id,
                         access_token |-> exchange_response.access_token,
                         item_id |-> exchange_response.item_id]))
    /\ UNCHANGED <<transactions, categories, catVars>>

\* The exchange answers and the upsert commits.
SetSaved(data, exchange_response) ==
    /\ data # NoBody
    /\ ~ MissingField(data)
    /\ request' = [op |-> "set_access_token", data |-> data]
    /\ remote' = [api |-> "item_public_token_exchange", answered |-> TRUE,
                  result |-> exchange_response]
    /\ plaid_items' =
         InsertOrReplace(plaid_items,
             [user_id |-> data.user_id,
              access_token |-> exchange_response.access_token,
              item_id |-> exchange_response.item_id])
    /\ conn' = Closed
    /\ response' = [status |-> 200, kind |-> "success"]
    /\ UNCHANGED <<transactions, categories, catVars>>

set_access_token ==
    \/ SetNoBody
    \/ \E data \in SetBodies :
         \/ SetMissingField(data)
         \/ SetExchangeFails(data)
         \/ \E x \in ExchangeResponses :
              \/ SetSaved(data, x)
              \/ \E issued \in {0, 1} : SetPersistFails(data, x, issued)

(* --------------------------- sync_transactions ------------------------- *)

SyncBodies == {NoBody} \cup [user_id : UserIdValues]

\* data is not a dict: data.get raises before the connection is opened.
SyncNoBody ==
    /\ request' = [op |-> "sync_transactions", data |-> NoBody]
    /\ remote' = NoCall
    /\ response' = ErrorResponse(500)
    /\ conn' = Unopened
    /\ UNCHANGED <<dbVars, catVars>>

\* fetchone() found no plaid_items row: 404, returned with conn still open.
SyncNoLinkedAccount(data) ==
    /\ data # NoBody
    /\ SelectItem(plaid_items, data.user_id) = {}
    /\ request' = [op |-> "sync_transactions", data |-> data]
    /\ remote' = NoCall
    /\ response' = ErrorResponse(404)
    /\ conn' \in Unclosed(0)
    /\ UNCHANGED <<dbVars, catVars>>

\* transactions_sync raises: 500, nothing inserted, conn never closed.
SyncRemoteFails(data) ==
    /\ data # NoBody
    /\ SelectItem(plaid_items, data.user_id) # {}
    /\ request' = [op |-> "sync_transactions", data |-> data]
    /\ remote' = [api |-> "transactions_sync", answered |-> FALSE,
                  result |-> NoResponse]
    /\ response' = ErrorResponse(500)
    /\ conn' \in Unclosed(0)
    /\ UNCHANGED <<dbVars, catVars>>

\* The remote answers; the inserts for `done`, the transactions at the head
\* of its 'added' list, succeed, then the next statement raises (the next
\* insert, or the commit when `done` is the whole list; and the lookup
\* category_map['Uncategorized'] when the table has no such row).
SyncPersistFails(data, done) ==
    /\ data # NoBody
    /\ SelectItem(plaid_items, data.user_id) # {}
    /\ Len(done) > 0 => "Uncategorized" \in DOMAIN CategoryMap(categories)
    /\ request' = [op |-> "sync_transactions", data |-> data]
    /\ remote' = [api |-> "transactions_sync", answered |-> TRUE,
                  result |-> NoResponse]
    /\ response' = ErrorResponse(500)
    /\ conn' \in Unclosed(Len(done))
    /\ transactions' =
         OnError(transactions,
                 InsertLoop(transactions, 0, done,
                            data.user_id, CategoryMap(categories)).view)
    /\ UNCHANGED <<plaid_items, categories, catVars>>

\* The remote answers, every insert succeeds, commit, close, 200.
SyncCommitted(data, sync_response) ==
    /\ data # NoBody
    /\ SelectItem(plaid_items, data.user_id) # {}
    /\ Len(sync_response.added) > 0 => "Uncategorized" \in DOMAIN CategoryMap(categories)
    /\ Len(transactions) + Len(sync_response.added) <= MaxRows
    /\ LET done == InsertLoop(transactions, 0, sync_response.added,
                              data.user_id, CategoryMap(categories))
       IN /\ transactions' = done.view
          /\ response' = [status |-> 200, kind |-> "success",
                          new_transactions |-> done.count]
    /\ request' = [op |-> "sync_transactions", data |-> data]
    /\ remote' = [api |-> "transactions_sync", answered |-> TRUE,
                  result |-> sync_response]
    /\ conn' = Closed
    /\ UNCHANGED <<plaid_items, categories, catVars>>

sync_transactions ==
    \/ SyncNoBody
    \/ \E data \in SyncBodies :
         \/ SyncNoLinkedAccount(data)
         \/ SyncRemoteFails(data)
         \/ \E r \in SyncResponses : SyncCommitted(data, r)
         \/ \E done \in SeqsUpTo(RemoteTxns, MaxDelta) : SyncPersistFails(data, done)

(* ---------------------------- specifications --------------------------- *)

Init ==
    /\ plaid_items = {}
    /\ transactions = <<>>
    /\ categories \in CategoryTables
    /\ request = [op |-> "none", data |-> NoBody]
    /\ response = [status |-> 0, kind |-> "none"]
    /\ remote = NoCall
    /\ conn = Unopened
    /\ description = <<>>
    /\ fragments = 0
    /\ category = categorize_transaction(description)

Next == create_link_token \/ set_access_token \/ sync_transactions

Spec == Init /\ [][Next]_vars

\* One more fragment is appended to the description and the categorizer is
\* applied to the result.
Categorize(fragment) ==
    /\ fragments < MaxFrags
    /\ fragments' = fragments + 1
    /\ description' = description \o fragment
    /\ category' = categorize_transaction(description')
    /\ UNCHANGED <<dbVars, request, response, remote, conn>>

CatNext == \E fragment \in Fragments : Categorize(fragment)

SpecCat == Init /\ [][CatNext]_vars

(* ================================ claims =============================== *)

\* C1. For every description, categorize_transaction returns the first
\* category, in the order Food, Transport, Shopping, Utilities,
\* Entertainment, Housing, that has a keyword occurring in the lowercased
\* description, and "Uncategorized" when no category has one (the empty
\* description included).
C1_FirstDeclaredMatch ==
    LET order == <<"Food", "Transport", "Shopping", "Utilities",
                   "Entertainment", "Housing">>
        text == Lower(description)
        occurs(kw) == \E a \in 1..Len(text) : \E b \in a..Len(text) :
                          SubSeq(text, a, b) = kw
        has(c) == \E i \in 1..Len(KEYWORD_MAP) :
                     /\ KEYWORD_MAP[i].category = c
                     /\ \E k \in 1..Len(KEYWORD_MAP[i].keywords) :
                           occurs(KEYWORD_MAP[i].keywords[k])
        matching == { i \in 1..Len(order) : has(order[i]) }
    IN  /\ matching = {} => category = "Uncategorized"
        /\ matching # {} =>
             \E i \in matching : /\ \A j \in matching : i <= j
                                 /\ category = order[i]
        /\ description = <<>> => category = "Uncategorized"

\* C1 witness: a Transport keyword and a Food keyword co-occur, the
\* Transport one first in the text, and the result is Food.
C1_Witness ==
    /\ fragments = 2
    /\ description = <<"U","B","E","R">> \o <<"S","t","a","r","b","u","c","k","s">>
    /\ category = "Food"

C3_UpsertLastWriterWins ==
    [][ IF request'.op = "set_access_token" /\ response'.status = 200
        THEN LET u == request'.data.user_id
                 x == remote'.result
             IN  /\ { r \in plaid_items' : r.user_id = u } =
                      { [user_id |-> u, access_token |-> x.access_token,
                         item_id |-> x.item_id] }
                 /\ { r \in plaid_items' : r.user_id # u } =
                      { r \in plaid_items : r.user_id # u }
                 /\ \A v \in Users :
                      Cardinality({ r \in plaid_items' : r.user_id = v }) <= 1
        ELSE plaid_items' = plaid_items ]_vars

\* C3 witness: both users are linked, with different tokens, right after a
\* successful exchange.
C3_Witness ==
    /\ request.op = "set_access_token"
    /\ response.status = 200
    /\ Cardinality(plaid_items) = 2
    /\ \E r1, r2 \in plaid_items : r1.access_token # r2.access_token

\* C4. A sync_transactions request for a user_id with no plaid_items row
\* returns 404, calls no remote API and inserts no transactions row.
C4_NoLinkedAccount ==
    [][ ( /\ request'.op = "sync_transactions"
          /\ request'.data # NoBody
          /\ ~ \E r \in plaid_items : r.user_id = request'.data.user_id )
        => ( /\ response'.status = 404
             /\ remote'.api = "none"
             /\ transactions' = transactions ) ]_vars

\* C4 witness: a sync for a real user id was answered 404 while another
\* user was linked.
C4_Witness ==
    /\ request.op = "sync_transactions"
    /\ request.data # NoBody
    /\ request.data.user_id \in Users
    /\ response.status = 404
    /\ plaid_items # {}

\* C5 as stated. A successful sync_transactions whose delta has N 'added'
\* transactions appends N rows, one per added transaction in order, with
\* its date, name and amount and the requesting user_id, each with the id
\* of the categories row named by categorize_transaction(name), and returns
\* new_transactions = N; 'modified' and 'removed' add nothing.
C5_RowsCarryCategoryOfCategorizer ==
    [][ ( request'.op = "sync_transactions" /\ response'.status = 200 )
        => LET added == remote'.result.added
               n == Len(added)
               old == Len(transactions)
           IN  /\ response'.new_transactions = n
               /\ Len(transactions') = old + n
               /\ SubSeq(transactions', 1, old) = transactions
               /\ \A i \in 1..n :
                    LET row == transactions'[old + i]
                    IN  /\ row.user_id = request'.data.user_id
                        /\ row.transaction_date = added[i].date
                        /\ row.description = added[i].name
                        /\ row.amount = added[i].amount
                        /\ \E name \in {categorize_transaction(added[i].name)} :
                           \E c \in categories :
                             c.name = name /\ row.category_id = c.id ]_vars

\* C5 as amended: as above, but a row's category_id is the id of the
\* categories row named by categorize_transaction(name) when the table has
\* such a row, and the id of the "Uncategorized" row when it has none.
C5_RowsFromDelta ==
    [][ ( request'.op = "sync_transactions" /\ response'.status = 200 )
        => LET added == remote'.result.added
               n == Len(added)
               old == Len(transactions)
           IN  /\ response'.new_transactions = n
               /\ Len(transactions') = old + n
               /\ SubSeq(transactions', 1, old) = transactions
               /\ \A i \in 1..n :
                    LET row == transactions'[old + i]
                    IN  /\ row.user_id = request'.data.user_id
                        /\ row.transaction_date = added[i].date
                        /\ row.description = added[i].name
                        /\ row.amount = added[i].amount
                        /\ \E name \in {categorize_transaction(added[i].name)} :
                           \E wanted \in {IF \E c \in categories : c.name = name
                                          THEN name ELSE "Uncategorized"} :
                           \E c \in categories :
                             c.name = wanted /\ row.category_id = c.id ]_vars

\* C5 witness: a sync of two added transactions (with 'modified' and
\* 'removed' entries present) returned new_transactions = 2 and stored the
\* Starbucks row under Food with amount 450.
C5_Witness ==
    /\ request.op = "sync_transactions"
    /\ response.status = 200
    /\ response.new_transactions = 2
    /\ remote.result.modified # <<>>
    /\ remote.result.removed # <<>>
    /\ Len(transactions) = 2
    /\ \E i \in 1..Len(transactions) :
         /\ transactions[i].amount = 450
         /\ transactions[i].transaction_date = "2024-01-01"
         /\ \E c \in categories :
              c.name = "Food" /\ c.id = transactions[i].category_id

\* C6. Every stored transactions row has a category_id that is the id of a
\* row of the categories table.
C6_CategoryIdResolves ==
    \A i \in 1..Len(transactions) :
        \E c \in categories : c.id = transactions[i].category_id

\* C6 witness: a stored row whose description the categorizer files under a
\* name the categories table lacks; it carries the id of "Uncategorized".
C6_Witness ==
    \E i \in 1..Len(transactions) :
        /\ ~ \E c \in categories :
               c.name = categorize_transaction(transactions[i].description)
        /\ \E c \in categories :
               c.name = "Uncategorized" /\ c.id = transactions[i].category_id

\* C7. A sync_transactions call that returns 500 leaves the committed
\* transactions table exactly as it was, also when inserts were issued
\* before the failure; a call that changes the table returned 200 and
\* added every one of its N rows.
C7_AllOrNothing ==
    [][ request'.op = "sync_transactions"
        => /\ response'.status = 500 => transactions' = transactions
           /\ transactions' # transactions =>
                /\ response'.status = 200
                /\ Len(transactions') =
                     Len(transactions) + Len(remote'.result.added) ]_vars

\* C7 witness: a sync returned 500 after its connection had issued inserts
\* that were never committed, with committed rows already in the table.
C7_Witness ==
    /\ request.op = "sync_transactions"
    /\ response.status = 500
    /\ remote.answered
    /\ conn.status = "open"
    /\ conn.pending > 0
    /\ Len(transactions) > 0

\* C8. The transactions table is append-only and sync does not deduplicate:
\* every step keeps the rows already stored, in place, and a successful
\* sync of N added transactions adds N rows even when equal rows are
\* already stored.
C8_AppendOnlyNoDedup ==
    [][ /\ Len(transactions') >= Len(transactions)
        /\ \A i \in 1..Len(transactions) : transactions'[i] = transactions[i]
        /\ ( request'.op = "sync_transactions" /\ response'.status = 200 )
             => Len(transactions') =
                  Len(transactions) + Len(remote'.result.added) ]_vars

\* C8 witness: after a second successful sync of the same one-transaction
\* delta for the same user the table holds the row twice.
C8_Witness ==
    /\ request.op = "sync_transactions"
    /\ response.status = 200
    /\ response.new_transactions = 1
    /\ Len(transactions) = 2
    /\ transactions[1] = transactions[2]

\* C9. create_link_token and sync_transactions never change plaid_items, no
\* step removes a user's plaid_items row, and set_access_token and
\* create_link_token never change transactions.
C9_Frames ==
    [][ /\ request'.op \in {"create_link_token", "sync_transactions"}
             => plaid_items' = plaid_items
        /\ \A r \in plaid_items : \E q \in plaid_items' : q.user_id = r.user_id
        /\ request'.op \in {"create_link_token", "set_access_token"}
             => transactions' = transactions ]_vars

\* C9 witness: a token exchange succeeded for one user while the other user
\* was linked and transactions were stored.
C9_Witness ==
    /\ request.op = "set_access_token"
    /\ response.status = 200
    /\ Cardinality(plaid_items) = 2
    /\ Len(transactions) > 0

\* C10. No request returns with the SQLite connection it opened still open.
C10_ConnectionClosedOnReturn == conn.status # "open"

====
